---- MODULE Spec2Model ----
(***************************************************************************)
(* Model of the windows-sender audio pipeline (src/windows-sender/src/     *)
(* main.rs): the capture producer (enqueue_audio_chunk), the bounded       *)
(* capture queue, the repacketizer/sender (send_loop, consume_capture_time *)
(* and build_packet), the transport sinks and the telemetry reader.        *)
(***************************************************************************)
EXTENDS Integers, Sequences, FiniteSets, TLC

\* ------------------------------------------------------------------ bounds
\* Number of enqueue_audio_chunk calls a behaviour may contain.
MaxOffered == 2
\* Number of chunks send_loop receives in a behaviour that starts with the
\* capture queue full (512 chunks).
MaxDrain == 1

\* ------------------------------------------------------- program constants
HEADER_SIZE == 28
VERSION == 1
CODEC_PCM16 == 0
MAGIC == <<65, 85, 68, 48>>
QueueCap == 512
U16Max == 65535
I16Max == 32767
U8Mod == 256
\* One 16-bit limb.  u32 and u64 values are little-endian sequences of two and
\* four limbs, so that they keep their width: arithmetic on them wraps at 2^32
\* and 2^64 as the machine integers do.
Limb == 65536

\* ------------------------------------------------------- fixed-width integers
\* The u32 / u64 whose value is the small natural n (n < 2^31).
U32(n) == <<n % Limb, n \div Limb>>
U64(n) == <<n % Limb, n \div Limb, 0, 0>>

RECURSIVE AddW(_, _)
\* wrapping_add / fetch_add of a small natural n: ripple carry, the carry out of
\* the top limb is lost.
AddW(x, n) ==
    IF x = <<>> THEN <<>>
    ELSE LET s == Head(x) + n IN <<s % Limb>> \o AddW(Tail(x), s \div Limb)

RECURSIVE MulW(_, _, _)
\* x * k + carry for a small natural k, wrapping like AddW.
MulW(x, k, carry) ==
    IF x = <<>> THEN <<>>
    ELSE LET s == Head(x) * k + carry IN <<s % Limb>> \o MulW(Tail(x), k, s \div Limb)

RECURSIVE LeqW(_, _)
\* x <= y for two values of the same width.
LeqW(x, y) ==
    IF x = <<>> THEN TRUE
    ELSE LET n == Len(x) IN
         \/ x[n] < y[n]
         \/ x[n] = y[n] /\ LeqW(SubSeq(x, 1, n - 1), SubSeq(y, 1, n - 1))

\* ------------------------------------------------------------ byte helpers
\* n.to_le_bytes() for a natural n < 2^31 written on k bytes.
ToLE(n, k) == [i \in 1..k |-> (n \div (U8Mod ^ (i - 1))) % U8Mod]

RECURSIVE WToLE(_)
\* to_le_bytes of a u32 / u64: each limb gives two bytes, low limb first.
WToLE(x) == IF x = <<>> THEN <<>> ELSE ToLE(Head(x), 2) \o WToLE(Tail(x))

RECURSIVE FromLE(_)
\* Little-endian decoding of at most three bytes to a natural.
FromLE(bs) == IF bs = <<>> THEN 0 ELSE Head(bs) + U8Mod * FromLE(Tail(bs))

RECURSIVE WFromLE(_)
\* from_le_bytes to a u32 / u64 (an even number of bytes).
WFromLE(bs) ==
    IF bs = <<>> THEN <<>>
    ELSE <<bs[1] + U8Mod * bs[2]>> \o WFromLE(SubSeq(bs, 3, Len(bs)))

\* i16::to_le_bytes: two's complement, low byte first.
I16ToLE(s) == ToLE(s % Limb, 2)

\* i16::from_le_bytes, the inverse a receiver applies.
I16FromLE(bs) ==
    LET u == FromLE(bs) IN IF u > I16Max THEN u - Limb ELSE u

\* (v as i32).unsigned_abs()
UnsignedAbs(v) == IF v < 0 THEN 0 - v ELSE v

\* The recursions below halve their argument, so that long sequences (a full
\* capture queue) do not nest deeply.
Left(s) == SubSeq(s, 1, Len(s) \div 2)
Right(s) == SubSeq(s, (Len(s) \div 2) + 1, Len(s))

RECURSIVE SumAbs(_)
\* abs_sum of lines 422-430.
SumAbs(c) ==
    IF c = <<>> THEN 0
    ELSE IF Len(c) = 1 THEN UnsignedAbs(c[1])
    ELSE SumAbs(Left(c)) + SumAbs(Right(c))

RECURSIVE CountNonZero(_)
\* nonzero of lines 422-430.
CountNonZero(c) ==
    IF c = <<>> THEN 0
    ELSE IF Len(c) = 1 THEN (IF c[1] # 0 THEN 1 ELSE 0)
    ELSE CountNonZero(Left(c)) + CountNonZero(Right(c))

RECURSIVE Flatten(_)
\* The samples of a sequence of chunks, in order.
Flatten(cs) ==
    IF cs = <<>> THEN <<>>
    ELSE IF Len(cs) = 1 THEN cs[1].samples
    ELSE Flatten(Left(cs)) \o Flatten(Right(cs))

\* --------------------------------------------------------------- variables
VARIABLES
    cfg,            \* sample_rate, channels, frame_ms, transport (immutable)
    now,            \* monotonic clock read by Instant::now()
    queue,          \* the bounded capture channel
    txAlive,        \* a Sender handle of the channel still exists
    stats,          \* SenderStats
    ppc,            \* producer: position inside enqueue_audio_chunk
    pchunk,         \* producer: the chunk being enqueued
    spc,            \* sender: position inside send_loop
    seq,            \* send_loop: seq
    acc,            \* send_loop: acc
    acc_capture,    \* send_loop: acc_capture
    chunk,          \* send_loop: the chunk just received
    loc,            \* send_loop: payload, packet, packet_capture_time and timers
    err,            \* send_loop: the error it returned with
    offered,        \* history: number of enqueue_audio_chunk calls
    nsamp,          \* history: number of samples the capture device delivered
    nrecv,          \* history: number of chunks send_loop received
    accepted,       \* history: chunks the channel accepted
    dropped,        \* history: chunks discarded on a full channel
    received,       \* history: chunks send_loop received
    sinkLog,        \* history: calls of the sink (packet, seq, outcome)
    last,           \* telemetry reader: its last_* snapshot of the counters
    bp,             \* a call of build_packet on its own: arguments, clock, result
    sentBase,       \* history: packets sent before the behaviour's first state
    boot,           \* main: its position before send_loop, the arguments, the outcome
    desk            \* the wasapi-loopback thread and its ready channel

vars == <<cfg, now, queue, txAlive, stats, ppc, pchunk, spc, seq, acc,
          acc_capture, chunk, loc, err, offered, nsamp, nrecv, accepted, dropped,
          received, sinkLog, last, bp, sentBase, boot, desk>>

prodVars == <<ppc, pchunk, offered, nsamp, accepted, dropped>>
sendVars == <<spc, seq, acc, acc_capture, chunk, loc, err, received, nrecv, sinkLog>>

\* ----------------------------------------------------------- configuration
\* main: samples_per_channel and samples_per_packet.
\* A frame length rounded to the nearest sample.
samples_per_channel_round(c) == (c.sample_rate * c.frame_ms + 500) \div 1000

samples_per_channel(c) == (c.sample_rate * c.frame_ms) \div 1000
\* The packet size taken for one channel only.
samples_per_packet_mono(c) == samples_per_channel(c)

samples_per_packet(c) == samples_per_channel(c) * c.channels
\* main: the per_packet_overhead_bytes argument given to send_loop.
Overhead(c) == IF c.transport = "tcp" THEN 2 ELSE 0
\* main: the casts `channels as u8` and `samples_per_channel as u16`.
HdrChannels(c) == c.channels % U8Mod
HdrSamplesPerChannel(c) == samples_per_channel(c) % Limb

\* -------------------------------------------------------------- build_packet
\* SystemTime::now() since the epoch in microseconds, as a u64; <<>> stands for
\* a clock set before the epoch (duration_since fails).
BeforeEpoch == <<>>
WallClock == {BeforeEpoch, <<16384, 6174, 2596, 6>>}

\* The packet build_packet lays out (lines 560-572).
\* A header that writes seq before sample_rate.
PacketBytesSeqFirst(sq, sample_rate, channels, spch, payload, wall) ==
    MAGIC \o <<VERSION, CODEC_PCM16, channels, 0>>
          \o WToLE(sq) \o WToLE(sample_rate) \o WToLE(wall)
          \o ToLE(spch, 2) \o ToLE(Len(payload) % Limb, 2) \o payload

PacketBytes(sq, sample_rate, channels, spch, payload, wall) ==
    MAGIC \o <<VERSION, CODEC_PCM16, channels, 0>>
          \o WToLE(sample_rate) \o WToLE(sq) \o WToLE(wall)
          \o ToLE(spch, 2) \o ToLE(Len(payload) % Limb, 2) \o payload

\* The length guard one byte too lenient.
build_packet_lenient(sq, sample_rate, channels, spch, payload, wall) ==
    IF Len(payload) > U16Max + 1
    THEN [ok |-> FALSE, err |-> "payload too large", packet |-> <<>>]
    ELSE IF wall = BeforeEpoch
    THEN [ok |-> FALSE, err |-> "system clock before unix epoch", packet |-> <<>>]
    ELSE [ok |-> TRUE, err |-> "none",
          packet |-> PacketBytes(sq, sample_rate, channels, spch, payload, wall)]

\* sq and sample_rate are u32, channels a u8, spch a u16, payload bytes.
build_packet(sq, sample_rate, channels, spch, payload, wall) ==
    IF Len(payload) > U16Max
    THEN [ok |-> FALSE, err |-> "payload too large", packet |-> <<>>]
    ELSE IF wall = BeforeEpoch
    THEN [ok |-> FALSE, err |-> "system clock before unix epoch", packet |-> <<>>]
    ELSE [ok |-> TRUE, err |-> "none",
          packet |-> PacketBytes(sq, sample_rate, channels, spch, payload, wall)]

\* ------------------------------------------------------ consume_capture_time
RECURSIVE ConsumeRecordsWhole(_, _)
\* The loop without the push_front of the remainder: a record that holds more
\* than is left to consume goes as a whole.
ConsumeRecordsWhole(q, n) ==
    IF n = 0 \/ q = <<>> THEN q
    ELSE IF Head(q).count > n THEN Tail(q)
         ELSE ConsumeRecordsWhole(Tail(q), n - Head(q).count)

RECURSIVE ConsumeRecords(_, _)
\* The loop of lines 531-540 on the record queue q with n samples to consume.
ConsumeRecords(q, n) ==
    IF n = 0 \/ q = <<>> THEN q
    ELSE IF Head(q).count > n
         THEN <<[count |-> Head(q).count - n, captured_at |-> Head(q).captured_at]>>
              \o Tail(q)
         ELSE ConsumeRecords(Tail(q), n - Head(q).count)

\* The timestamp taken from the newest record instead of the oldest.
consume_capture_time_newest(q, n) ==
    [oldest |-> IF q = <<>> THEN <<>> ELSE <<q[Len(q)].captured_at>>,
     rest |-> ConsumeRecords(q, n)]

\* oldest is <<>> for None and <<t>> for Some(t).
consume_capture_time(q, n) ==
    [oldest |-> IF q = <<>> THEN <<>> ELSE <<Head(q).captured_at>>,
     rest |-> ConsumeRecords(q, n)]

\* ------------------------------------------------------------ payload of a packet
\* Lines 487-493: pop n samples from the front of acc (0 where acc runs out)
\* and write each as two little-endian bytes.
PayloadOf(a, n) ==
    [j \in 1..(2 * n) |->
        LET i == (j + 1) \div 2
            sample == IF i <= Len(a) THEN a[i] ELSE 0
        IN I16ToLE(sample)[IF j % 2 = 1 THEN 1 ELSE 2]]

\* A pop that stops one sample early.
PopFrontShort(a, n) == IF n > Len(a) THEN <<>> ELSE SubSeq(a, n, Len(a))

PopFront(a, n) == IF n >= Len(a) THEN <<>> ELSE SubSeq(a, n + 1, Len(a))

\* --------------------------------------------------------------------- Init
ZeroStats ==
    [captured_chunks |-> U64(0), captured_samples |-> U64(0),
     captured_nonzero_samples |-> U64(0), captured_abs_sum |-> U64(0),
     capture_drops |-> U64(0), capture_queue_us_sum |-> U64(0),
     capture_queue_count |-> U64(0), capture_to_send_us_sum |-> U64(0),
     capture_to_send_count |-> U64(0), packet_build_us_sum |-> U64(0),
     packet_build_count |-> U64(0), socket_send_us_sum |-> U64(0),
     socket_send_count |-> U64(0), sent_packets |-> U64(0), sent_bytes |-> U64(0)]

NoChunk == [samples |-> <<>>, captured_at |-> 0]
NoLoc == [packet |-> <<>>, payload |-> <<>>, capture_time |-> <<>>, start |-> 0, us |-> 0]
NoErr == [msg |-> "none", seq |-> <<>>]

\* The signal at the capture device: the i-th sample it ever delivers.  The
\* values cover both signs, both bytes and the extremes of an i16.
SignalVals == <<-2, 258, 32767, -32768, 0, 255, -256, 1>>
Signal(i) == SignalVals[((i - 1) % Len(SignalVals)) + 1]

\* Configurations whose packets hold one, two and two (stereo) samples.
SmallConfigs ==
    {[sample_rate |-> 1000, frame_ms |-> 1, channels |-> 1, transport |-> "udp"],
     [sample_rate |-> 1000, frame_ms |-> 2, channels |-> 1, transport |-> "tcp"],
     [sample_rate |-> 1000, frame_ms |-> 1, channels |-> 2, transport |-> "udp"]}

\* main once it has called send_loop: arguments accepted, one adapter started,
\* one socket open.
InSendLoop ==
    [pc |-> "send_loop", list |-> FALSE, target_ip |-> "ok", source |-> "mic",
     exit |-> "running", adapters |-> 1, sockets |-> 1]
\* No loopback thread (the source is the input device).
NoThread ==
    [pc |-> "none", ready |-> <<>>, rxAlive |-> FALSE, sends |-> 0,
     byte_queue |-> <<>>, event |-> "none", reads |-> 0]

\* The pipeline with q accepted and st counted by the producer, and send_loop
\* at pc0.
InitState(c, q, st, sq, base, t, pc0) ==
    /\ cfg = c
    /\ now = t
    /\ queue = q
    /\ txAlive = TRUE
    /\ stats = st
    /\ ppc = "idle"
    /\ pchunk = <<>>
    /\ spc = pc0
    /\ seq = sq
    /\ acc = <<>>
    /\ acc_capture = <<>>
    /\ chunk = NoChunk
    /\ loc = NoLoc
    /\ err = NoErr
    /\ offered = 0
    /\ nsamp = Len(Flatten(q))
    /\ nrecv = 0
    /\ accepted = q
    /\ dropped = <<>>
    /\ received = <<>>
    /\ sinkLog = <<>>
    /\ last = ZeroStats
    /\ sentBase = base
\* The state send_loop starts in, after the producer has had q accepted and st
\* counted (the capture adapter runs before send_loop is entered).
InitPipeline(c, q, st, sq, base, t) ==
    /\ InitState(c, q, st, sq, base, t, "recv")
    /\ boot = InSendLoop
    /\ desk = NoThread

\* No call of build_packet outside send_loop.
NoCall == [st |-> "none"]
InitWith(c, q, st, sq, base, t) == InitPipeline(c, q, st, sq, base, t) /\ bp = NoCall

\* send_loop about to start, nothing captured yet.
InitFresh ==
    \E c \in SmallConfigs : InitWith(c, <<>>, ZeroStats, U32(0), U64(0), 0)

\* send_loop about to start while the adapter, started before it, has already
\* filled the queue with QueueCap one-sample chunks.
BacklogConfig == [sample_rate |-> 1000, frame_ms |-> 1, channels |-> 1, transport |-> "udp"]
BacklogQueue ==
    [i \in 1..QueueCap |-> [samples |-> <<Signal(i)>>, captured_at |-> i - 1]]
InitBacklog ==
    InitWith(BacklogConfig, BacklogQueue,
             [ZeroStats EXCEPT !.captured_chunks = U64(QueueCap),
                               !.captured_samples = U64(QueueCap),
                               !.captured_nonzero_samples =
                                   U64(CountNonZero(Flatten(BacklogQueue))),
                               !.captured_abs_sum = U64(SumAbs(Flatten(BacklogQueue)))],
             U32(0), U64(0), QueueCap)

\* send_loop after 2^32 - 2 packets: so far every chunk held exactly one packet
\* of silence and was sent with no measurable delay.
WrapConfigs == {[sample_rate |-> 1000, frame_ms |-> 1, channels |-> 1, transport |-> "tcp"]}
NearWrap == <<Limb - 2, Limb - 1, 0, 0>>
InitNearWrap ==
    \E c \in WrapConfigs :
        InitWith(c, <<>>,
                 [ZeroStats EXCEPT
                    !.captured_chunks = NearWrap,
                    !.captured_samples = MulW(NearWrap, samples_per_packet(c), 0),
                    !.capture_queue_count = NearWrap,
                    !.capture_to_send_count = NearWrap,
                    !.packet_build_count = NearWrap,
                    !.socket_send_count = NearWrap,
                    !.sent_packets = NearWrap,
                    !.sent_bytes =
                        MulW(NearWrap,
                             HEADER_SIZE + 2 * samples_per_packet(c) + Overhead(c), 0)],
                 SubSeq(NearWrap, 1, 2), NearWrap, 0)

Init == InitFresh \/ InitBacklog \/ InitNearWrap

\* ------------------------------------------------- producer: enqueue_audio_chunk
\* The sizes of the chunks a capture callback hands over: none, one or two
\* samples, so that a chunk can be shorter than, equal to or longer than a packet.
ChunkLens == {0, 1, 2}

\* The chunk of n samples the adapter cuts from the signal next.
ChunkOf(n) == [i \in 1..n |-> Signal(nsamp + i)]

\* fetch_add(n, Relaxed) on one counter.
AddStat(field, n) == stats' = [stats EXCEPT ![field] = AddW(@, n)]

\* Lines 417-420: the call; an empty chunk returns at once.
EnqueueCall(n) ==
    /\ ppc = "idle" /\ txAlive /\ offered < MaxOffered
    /\ offered' = offered + 1
    /\ nsamp' = nsamp + n
    /\ IF ChunkOf(n) = <<>>
       THEN UNCHANGED <<ppc, pchunk>>
       ELSE ppc' = "captured_samples" /\ pchunk' = ChunkOf(n)
    /\ UNCHANGED <<cfg, now, queue, txAlive, stats, accepted, dropped, sendVars, last, bp, sentBase, boot, desk>>

\* Lines 431-433.
EnqueueSamples ==
    /\ ppc = "captured_samples"
    /\ AddStat("captured_samples", Len(pchunk))
    /\ ppc' = "captured_abs_sum"
    /\ UNCHANGED <<cfg, now, queue, txAlive, pchunk, offered, nsamp, accepted, dropped, sendVars, last, bp, sentBase, boot, desk>>

\* Line 434.
EnqueueAbsSum ==
    /\ ppc = "captured_abs_sum"
    /\ AddStat("captured_abs_sum", SumAbs(pchunk))
    /\ ppc' = "captured_nonzero"
    /\ UNCHANGED <<cfg, now, queue, txAlive, pchunk, offered, nsamp, accepted, dropped, sendVars, last, bp, sentBase, boot, desk>>

\* Lines 435-437.
EnqueueNonZero ==
    /\ ppc = "captured_nonzero"
    /\ AddStat("captured_nonzero_samples", CountNonZero(pchunk))
    /\ ppc' = "try_send"
    /\ UNCHANGED <<cfg, now, queue, txAlive, pchunk, offered, nsamp, accepted, dropped, sendVars, last, bp, sentBase, boot, desk>>

\* A full channel that makes room by evicting its oldest chunk.
try_send_evict(q, msg) ==
    IF Len(q) < QueueCap THEN [res |-> "Ok", q |-> Append(q, msg)]
    ELSE [res |-> "Full", q |-> Append(Tail(q), msg)]

\* tx.try_send(msg) on the bounded channel: Ok or Full, at once.
try_send(q, msg) ==
    IF Len(q) < QueueCap THEN [res |-> "Ok", q |-> Append(q, msg)]
    ELSE [res |-> "Full", q |-> q]

\* Lines 438-441; captured_at is Instant::now() of the call.
TrySendBody ==
    /\ ppc = "try_send"
    /\ LET msg == [samples |-> pchunk, captured_at |-> now]
           r == try_send(queue, msg)
       IN /\ queue' = r.q
          /\ IF r.res = "Ok"
             THEN /\ accepted' = Append(accepted, msg)
                  /\ ppc' = "captured_chunks"
                  /\ UNCHANGED dropped
             ELSE /\ dropped' = Append(dropped, msg)
                  /\ ppc' = "capture_drops"
                  /\ UNCHANGED accepted
    /\ now' = now + 1
    /\ UNCHANGED <<cfg, txAlive, stats, pchunk, offered, nsamp, sendVars, last, bp, sentBase, boot, desk>>

\* The enqueue written with the blocking send: it waits for room.
TrySendBlocking == Len(queue) < QueueCap /\ TrySendBody

TrySend == TrySendBody

\* A match that counts the chunk as captured whether or not it was accepted.
EnqueueResultAlways ==
    /\ ppc \in {"captured_chunks", "capture_drops"}
    /\ AddStat("captured_chunks", 1)
    /\ ppc' = "idle" /\ pchunk' = <<>>
    /\ UNCHANGED <<cfg, now, queue, txAlive, offered, nsamp, accepted, dropped, sendVars, last, bp, sentBase, boot, desk>>

\* Lines 438-448, the match on the result: Ok adds one to captured_chunks, Full
\* adds one to capture_drops; the chunk is gone either way and the call returns.
EnqueueResult ==
    /\ ppc \in {"captured_chunks", "capture_drops"}
    /\ AddStat(ppc, 1)
    /\ ppc' = "idle" /\ pchunk' = <<>>
    /\ UNCHANGED <<cfg, now, queue, txAlive, offered, nsamp, accepted, dropped, sendVars, last, bp, sentBase, boot, desk>>

\* The last Sender handle of the channel goes away (the capture stream or
\* thread that owns it ends).
DropTx ==
    /\ ppc = "idle" /\ txAlive
    /\ txAlive' = FALSE
    /\ UNCHANGED <<cfg, now, queue, stats, prodVars, sendVars, last, bp, sentBase, boot, desk>>

\* The steps of a call of enqueue_audio_chunk after its entry.
InCall ==
    \/ EnqueueSamples
    \/ EnqueueAbsSum
    \/ EnqueueNonZero
    \/ TrySend
    \/ EnqueueResult

Producer ==
    \/ \E n \in ChunkLens : EnqueueCall(n)
    \/ EnqueueSamples
    \/ EnqueueAbsSum
    \/ EnqueueNonZero
    \/ TrySend
    \/ EnqueueResult

\* ----------------------------------------------------------- sender: send_loop
envVars == <<cfg, txAlive, now, prodVars, last, bp, sentBase, boot, desk>>

\* The behaviour started with chunks already queued: more chunks were accepted
\* than enqueue_audio_chunk was called since.
StartedWithBacklog == Len(accepted) > offered

\* A receive that fails as soon as no Sender is left, chunks queued or not.
recv_early(q, alive) ==
    IF ~alive THEN "Disconnected" ELSE IF q # <<>> THEN "Ok" ELSE "Wait"

\* rx.recv() on the channel: the oldest chunk if there is one; otherwise it
\* waits while a Sender is left and fails once none is.
recv(q, alive) ==
    IF q # <<>> THEN "Ok" ELSE IF alive THEN "Wait" ELSE "Disconnected"

\* Lines 470-471: the blocking receive returns.  Ok: send_loop takes the chunk
\* and reads its age.  Err: send_loop returns 'audio capture channel closed'.
\* Of a queue that was full at the start send_loop receives MaxDrain chunks.
Recv ==
    /\ spc = "recv"
    /\ LET r == recv(queue, txAlive)
       IN /\ r # "Wait"
          /\ IF r = "Ok"
             THEN /\ StartedWithBacklog => nrecv < MaxDrain
                  /\ chunk' = Head(queue)
                  /\ queue' = Tail(queue)
                  /\ received' = Append(received, Head(queue))
                  /\ nrecv' = nrecv + 1
                  /\ loc' = [loc EXCEPT !.us = now - Head(queue).captured_at]
                  /\ spc' = "capture_queue_us_sum"
                  /\ UNCHANGED err
             ELSE /\ err' = [msg |-> "audio capture channel closed", seq |-> <<>>]
                  /\ spc' = "returned"
                  /\ UNCHANGED <<queue, chunk, loc, received, nrecv>>
    /\ UNCHANGED <<envVars, stats, seq, acc, acc_capture, sinkLog>>

\* Lines 472-474.
QueueUsSum ==
    /\ spc = "capture_queue_us_sum"
    /\ AddStat("capture_queue_us_sum", loc.us)
    /\ spc' = "capture_queue_count"
    /\ UNCHANGED <<envVars, queue, seq, acc, acc_capture, chunk, loc, err, received,
                   nrecv, sinkLog>>

\* Lines 475-483.
QueueCount ==
    /\ spc = "capture_queue_count"
    /\ AddStat("capture_queue_count", 1)
    /\ acc' = acc \o chunk.samples
    /\ acc_capture' =
          IF Len(chunk.samples) > 0
          THEN Append(acc_capture,
                      [count |-> Len(chunk.samples), captured_at |-> chunk.captured_at])
          ELSE acc_capture
    /\ spc' = "while"
    /\ UNCHANGED <<envVars, queue, seq, chunk, loc, err, received, nrecv, sinkLog>>

\* The comparison written as a strict one.
WhileCondStrict(a, n) == Len(a) > n

\* Line 485: acc.len() >= samples_per_packet.
WhileCond(a, n) == Len(a) >= n

\* Line 485, condition false: back to the blocking receive.
WhileExit ==
    /\ spc = "while" /\ ~WhileCond(acc, samples_per_packet(cfg))
    /\ spc' = "recv"
    /\ UNCHANGED <<envVars, queue, stats, seq, acc, acc_capture, chunk, loc, err,
                   received, nrecv, sinkLog>>

\* Lines 485-495: one packet's samples leave acc.
WhileBody ==
    /\ spc = "while" /\ WhileCond(acc, samples_per_packet(cfg))
    /\ LET n == samples_per_packet(cfg)
           c == consume_capture_time(acc_capture, n)
       IN /\ acc_capture' = c.rest
          /\ acc' = PopFront(acc, n)
          /\ loc' = [loc EXCEPT !.capture_time = c.oldest, !.payload = PayloadOf(acc, n),
                                !.start = now]
    /\ spc' = "build"
    /\ UNCHANGED <<envVars, queue, stats, seq, chunk, err, received, nrecv, sinkLog>>

\* Lines 496-497.
Build ==
    /\ spc = "build"
    /\ \E wall \in WallClock :
         LET r == build_packet(seq, U32(cfg.sample_rate), HdrChannels(cfg),
                               HdrSamplesPerChannel(cfg), loc.payload, wall)
         IN IF r.ok
            THEN /\ loc' = [loc EXCEPT !.packet = r.packet, !.us = now - loc.start]
                 /\ spc' = "packet_build_us_sum"
                 /\ UNCHANGED err
            ELSE /\ err' = [msg |-> r.err, seq |-> <<>>]
                 /\ spc' = "returned"
                 /\ UNCHANGED loc
    /\ UNCHANGED <<envVars, queue, stats, seq, acc, acc_capture, chunk, received, nrecv,
                   sinkLog>>

\* Lines 498-500.
BuildUsSum ==
    /\ spc = "packet_build_us_sum"
    /\ AddStat("packet_build_us_sum", loc.us)
    /\ spc' = "packet_build_count"
    /\ UNCHANGED <<envVars, queue, seq, acc, acc_capture, chunk, loc, err, received,
                   nrecv, sinkLog>>

\* Lines 501-503.
BuildCount ==
    /\ spc = "packet_build_count"
    /\ AddStat("packet_build_count", 1)
    /\ loc' = [loc EXCEPT !.start = now]
    /\ spc' = "send"
    /\ UNCHANGED <<envVars, queue, seq, acc, acc_capture, chunk, err, received, nrecv,
                   sinkLog>>

\* main, lines 215-216: the stream sink refuses a packet whose length does not
\* fit the u16 prefix; the datagram sink has no such check.
SinkAccepts(c, packet) == c.transport = "tcp" => Len(packet) <= U16Max

\* A length prefix written high byte first.
tcp_prefix_be(packet) == <<Len(packet) \div U8Mod, Len(packet) % U8Mod>>

\* Lines 215-219: len.to_le_bytes() of the u16 length of the packet.
tcp_prefix(packet) == ToLE(Len(packet), 2)

\* What a call of the sink can do (main, lines 191-196 and 214-224): whether it
\* returns Ok, the bytes it has put on the TCP connection, and whether its error
\* names seq.  The UDP sink sends one datagram or fails.  The TCP sink writes
\* nothing for a packet whose length is no u16 (that error names no seq);
\* otherwise write_all of the prefix and write_all of the packet each succeed or
\* fail, a failing one having written nothing or a part.
SinkResults(c, packet) ==
    IF c.transport = "udp"
    THEN {[ok |-> TRUE, wrote |-> <<>>, seq_named |-> TRUE],
          [ok |-> FALSE, wrote |-> <<>>, seq_named |-> TRUE]}
    ELSE IF ~SinkAccepts(c, packet)
    THEN {[ok |-> FALSE, wrote |-> <<>>, seq_named |-> FALSE]}
    ELSE {[ok |-> TRUE, wrote |-> tcp_prefix(packet) \o packet, seq_named |-> TRUE]}
         \cup {[ok |-> FALSE, wrote |-> w, seq_named |-> TRUE] :
                 w \in {<<>>, SubSeq(tcp_prefix(packet), 1, 1), tcp_prefix(packet),
                        tcp_prefix(packet) \o SubSeq(packet, 1, 1)}}

\* Lines 504-505, the sink returns Ok.
SendOk ==
    /\ spc = "send"
    /\ \E r \in SinkResults(cfg, loc.packet) :
          /\ r.ok
          /\ sinkLog' = Append(sinkLog, [packet |-> loc.packet, seq |-> seq, ok |-> TRUE,
                                         wrote |-> r.wrote])
    /\ loc' = [loc EXCEPT !.us = now - loc.start]
    /\ spc' = "socket_send_us_sum"
    /\ UNCHANGED <<envVars, queue, stats, seq, acc, acc_capture, chunk, err, received,
                   nrecv>>

\* Line 504, the sink returns Err: send_loop returns it (main, lines 194, 216-222).
SendErr ==
    /\ spc = "send"
    /\ \E r \in SinkResults(cfg, loc.packet) :
          /\ ~r.ok
          /\ sinkLog' = Append(sinkLog, [packet |-> loc.packet, seq |-> seq, ok |-> FALSE,
                                         wrote |-> r.wrote])
          /\ err' = [msg |-> "send failed", seq |-> IF r.seq_named THEN seq ELSE <<>>]
    /\ spc' = "returned"
    /\ UNCHANGED <<envVars, queue, stats, seq, acc, acc_capture, chunk, loc, received,
                   nrecv>>

\* Lines 506-508.
SendUsSum ==
    /\ spc = "socket_send_us_sum"
    /\ AddStat("socket_send_us_sum", loc.us)
    /\ spc' = "socket_send_count"
    /\ UNCHANGED <<envVars, queue, seq, acc, acc_capture, chunk, loc, err, received,
                   nrecv, sinkLog>>

\* Line 509.
SendCount ==
    /\ spc = "socket_send_count"
    /\ AddStat("socket_send_count", 1)
    /\ spc' = "sent_packets"
    /\ UNCHANGED <<envVars, queue, seq, acc, acc_capture, chunk, loc, err, received,
                   nrecv, sinkLog>>

\* Line 510.
SentPackets ==
    /\ spc = "sent_packets"
    /\ AddStat("sent_packets", 1)
    /\ spc' = "sent_bytes"
    /\ UNCHANGED <<envVars, queue, seq, acc, acc_capture, chunk, loc, err, received,
                   nrecv, sinkLog>>

\* An increment that saturates at u32::MAX instead of wrapping.
NextSeqSaturating(sq) == IF sq = <<Limb - 1, Limb - 1>> THEN sq ELSE AddW(sq, 1)

\* seq.wrapping_add(1)
NextSeq(sq) == AddW(sq, 1)

\* sent_bytes counting the packet without the transport's overhead.
SentBytesPacketOnly ==
    /\ spc = "sent_bytes"
    /\ AddStat("sent_bytes", Len(loc.packet))
    /\ IF loc.capture_time # <<>>
       THEN spc' = "capture_to_send_us_sum" /\ UNCHANGED seq
       ELSE spc' = "while" /\ seq' = NextSeq(seq)
    /\ UNCHANGED <<envVars, queue, acc, acc_capture, chunk, loc, err, received, nrecv,
                   sinkLog>>

\* Lines 511-514 and, when there is no capture time, line 521.
SentBytes ==
    /\ spc = "sent_bytes"
    /\ AddStat("sent_bytes", Len(loc.packet) + Overhead(cfg))
    /\ IF loc.capture_time # <<>>
       THEN spc' = "capture_to_send_us_sum" /\ UNCHANGED seq
       ELSE spc' = "while" /\ seq' = NextSeq(seq)
    /\ UNCHANGED <<envVars, queue, acc, acc_capture, chunk, loc, err, received, nrecv,
                   sinkLog>>

\* Lines 515-518.
CaptureToSendSum ==
    /\ spc = "capture_to_send_us_sum"
    /\ AddStat("capture_to_send_us_sum", now - loc.capture_time[1])
    /\ spc' = "capture_to_send_count"
    /\ UNCHANGED <<envVars, queue, seq, acc, acc_capture, chunk, loc, err, received,
                   nrecv, sinkLog>>

\* Lines 519-521.
CaptureToSendCount ==
    /\ spc = "capture_to_send_count"
    /\ AddStat("capture_to_send_count", 1)
    /\ seq' = NextSeq(seq)
    /\ spc' = "while"
    /\ UNCHANGED <<envVars, queue, acc, acc_capture, chunk, loc, err, received, nrecv,
                   sinkLog>>

Sender ==
    \/ Recv
    \/ QueueUsSum
    \/ QueueCount
    \/ WhileExit
    \/ WhileBody
    \/ Build
    \/ BuildUsSum
    \/ BuildCount
    \/ SendOk
    \/ SendErr
    \/ SendUsSum
    \/ SendCount
    \/ SentPackets
    \/ SentBytes
    \/ CaptureToSendSum
    \/ CaptureToSendCount

\* ------------------------------------------------- telemetry: spawn_stats_logger
\* Lines 660-751, one round of the reader: it loads the fifteen counters, reads
\* rx.len() of its clone of the receiver, prints the line of the differences to
\* its last snapshot and keeps the new snapshot.  It stores nothing else.
\* A reader that takes a chunk off its clone of the receiver to look at it.
StatsTickRecv ==
    /\ last' = stats
    /\ queue' = IF queue = <<>> THEN queue ELSE Tail(queue)
    /\ UNCHANGED <<cfg, now, txAlive, stats, prodVars, sendVars, bp, sentBase, boot, desk>>

\* A reader that takes each counter with swap(0) instead of load.
StatsTickReset ==
    /\ last' = stats
    /\ stats' = ZeroStats
    /\ UNCHANGED <<cfg, now, queue, txAlive, prodVars, sendVars, bp, sentBase, boot, desk>>

StatsTick ==
    /\ last' = stats
    /\ UNCHANGED <<cfg, now, queue, txAlive, stats, prodVars, sendVars, bp, sentBase, boot, desk>>

Next == Producer \/ DropTx \/ Sender

Spec == Init /\ [][Next]_vars

\* One fresh start, the telemetry reader running beside producer and sender.
TelemetryConfig == [sample_rate |-> 1000, frame_ms |-> 1, channels |-> 1, transport |-> "udp"]
InitT == InitWith(TelemetryConfig, <<>>, ZeroStats, U32(0), U64(0), 0)
\* Here the callback hands over one packet's worth of samples at a time.
TelemetryLens == {1}
ProducerT == (\E n \in TelemetryLens : EnqueueCall(n)) \/ InCall
NextT == ProducerT \/ Sender \/ StatsTick
\* send_loop runs on the main thread: the scheduler keeps running it, and a sink
\* call returns (Ok or Err), so a step of the sender that can be taken is taken.
SpecLive == InitT /\ [][NextT]_vars /\ WF_vars(Sender)

\* A fresh start whose producer side may go away, the sender scheduled as above.
CloseConfig == [sample_rate |-> 1000, frame_ms |-> 2, channels |-> 1, transport |-> "udp"]
InitClose == InitWith(CloseConfig, <<>>, ZeroStats, U32(0), U64(0), 0)
SpecClose == InitClose /\ [][Next]_vars /\ WF_vars(Sender)

\* -------------------------------------------------- the real frame geometries
\* main, lines 134-136: --frame-ms is accepted from 1 to 20.
MinFrameMs == 1
MaxFrameMs == 20
\* The sample rates and channel counts of common capture devices.
FrameRates == {8000, 16000, 44100, 48000}
FrameConfigs ==
    [sample_rate : FrameRates, frame_ms : MinFrameMs..MaxFrameMs, channels : {1, 2},
     transport : {"udp", "tcp"}]

\* The chunk of n samples that starts at the first-th sample of the signal.
FrameChunk(first, n, t) ==
    [samples |-> [i \in 1..n |-> Signal(first + i - 1)], captured_at |-> t]
\* The adapter, started before send_loop, has queued a chunk holding two
\* packets of samples and a chunk holding one.
FrameQueue(c) ==
    LET n == samples_per_packet(c)
    IN <<FrameChunk(1, 2 * n, 0), FrameChunk(2 * n + 1, n, 1)>>
InitFrame ==
    \E c \in FrameConfigs :
        InitWith(c, FrameQueue(c),
                 [ZeroStats EXCEPT
                    !.captured_chunks = U64(2),
                    !.captured_samples = U64(3 * samples_per_packet(c)),
                    !.captured_nonzero_samples = U64(CountNonZero(Flatten(FrameQueue(c)))),
                    !.captured_abs_sum = U64(SumAbs(Flatten(FrameQueue(c))))],
                 U32(0), U64(0), 2)
\* The adapter is between two callbacks while send_loop works the queue off.
NextFrame == Sender
SpecFrame == InitFrame /\ [][NextFrame]_vars

\* ------------------------------------------------------- whole-frame chunks
\* A stereo adapter whose callbacks deliver one or two whole frames.
AlignLens == {2, 4}
AlignConfigs ==
    {[sample_rate |-> 1000, frame_ms |-> 1, channels |-> 2, transport |-> "udp"],
     [sample_rate |-> 1000, frame_ms |-> 2, channels |-> 2, transport |-> "tcp"]}
AlignBacklogConfig ==
    [sample_rate |-> 1000, frame_ms |-> 1, channels |-> 2, transport |-> "udp"]
\* QueueCap chunks of one frame each, queued before send_loop starts.
AlignBacklogQueue ==
    [i \in 1..QueueCap |->
        [samples |-> <<Signal(2 * i - 1), Signal(2 * i)>>, captured_at |-> i - 1]]
InitAlign ==
    \/ \E c \in AlignConfigs : InitWith(c, <<>>, ZeroStats, U32(0), U64(0), 0)
    \/ InitWith(AlignBacklogConfig, AlignBacklogQueue,
                [ZeroStats EXCEPT
                   !.captured_chunks = U64(QueueCap),
                   !.captured_samples = U64(2 * QueueCap),
                   !.captured_nonzero_samples =
                       U64(CountNonZero(Flatten(AlignBacklogQueue))),
                   !.captured_abs_sum = U64(SumAbs(Flatten(AlignBacklogQueue)))],
                U32(0), U64(0), QueueCap)
ProducerA == (\E n \in AlignLens : EnqueueCall(n)) \/ InCall
NextAlign == ProducerA \/ Sender
SpecAlign == InitAlign /\ [][NextAlign]_vars

\* ------------------------------------------- geometries with an empty packet
\* Device rates at which sample_rate * frame_ms / 1000 rounds down to 0 for an
\* accepted --frame-ms.
ZeroGeometries == {<<500, 1, 1>>, <<999, 1, 2>>, <<40, 20, 1>>}
\* The slowest geometry with a sample per packet, for comparison.
OneSampleGeometry == <<1000, 1, 1>>
ZeroConfigs ==
    {[sample_rate |-> g[1], frame_ms |-> g[2], channels |-> g[3], transport |-> tr] :
        g \in ZeroGeometries \cup {OneSampleGeometry}, tr \in {"udp", "tcp"}}
\* Packets looked at per behaviour.
MaxEmitted == 3
\* The adapter has queued one chunk of one frame before send_loop starts.
ZeroQueue(c) == <<FrameChunk(1, c.channels, 0)>>
InitZero ==
    \E c \in ZeroConfigs :
        InitWith(c, ZeroQueue(c),
                 [ZeroStats EXCEPT
                    !.captured_chunks = U64(1),
                    !.captured_samples = U64(c.channels),
                    !.captured_nonzero_samples = U64(CountNonZero(Flatten(ZeroQueue(c)))),
                    !.captured_abs_sum = U64(SumAbs(Flatten(ZeroQueue(c))))],
                 U32(0), U64(0), 1)
NextZero == Len(sinkLog) < MaxEmitted /\ Sender
SpecZero == InitZero /\ [][NextZero]_vars

\* ------------------------------------------------ the stream transport's limits
\* TCP geometries: the 988-byte packet of 48 kHz stereo at 5 ms, small and
\* large usual ones, and device rates at which a 20 ms mono frame gives the
\* longest packet a u16 length can frame (65 534 bytes), the shortest it cannot
\* (65 536 bytes) and the shortest payload build_packet rejects (65 536 bytes).
StreamGeometries ==
    {<<48000, 5, 2>>, <<8000, 1, 1>>, <<44100, 20, 2>>, <<1000, 1, 1>>,
     <<1637650, 20, 1>>, <<1637700, 20, 1>>, <<1638400, 20, 1>>}
StreamConfigs ==
    {[sample_rate |-> g[1], frame_ms |-> g[2], channels |-> g[3], transport |-> "tcp"] :
        g \in StreamGeometries}
\* The queue send_loop finds: as in InitFrame for the usual geometries, one
\* chunk of exactly one packet for those at the u16 limits.
StreamQueue(c) ==
    IF samples_per_packet(c) * 2 + HEADER_SIZE < U16Max - 1
    THEN FrameQueue(c)
    ELSE <<FrameChunk(1, samples_per_packet(c), 0)>>
InitStream ==
    \E c \in StreamConfigs :
        InitWith(c, StreamQueue(c),
                 [ZeroStats EXCEPT
                    !.captured_chunks = U64(Len(StreamQueue(c))),
                    !.captured_samples = U64(Len(Flatten(StreamQueue(c)))),
                    !.captured_nonzero_samples = U64(CountNonZero(Flatten(StreamQueue(c)))),
                    !.captured_abs_sum = U64(SumAbs(Flatten(StreamQueue(c))))],
                 U32(0), U64(0), 2)
SpecStream == InitStream /\ [][NextFrame]_vars

\* --------------------------------------------------- build_packet on its own
\* The clocks a call may read: before the epoch, the epoch itself, a date of
\* today and the largest u64.
BuildClocks == WallClock \cup {U64(0), <<Limb - 1, Limb - 1, Limb - 1, Limb - 1>>}
\* A payload of n bytes with no two neighbours equal.
PayloadBytes(n) == [i \in 1..n |-> (i * 7) % U8Mod]
\* Arguments of the call: the extremes of every type with short payloads, and
\* the payload lengths around the u16 limits.
SmallArgs ==
    [seq : {U32(0), <<1, 2>>, <<Limb - 1, Limb - 1>>},
     sample_rate : {U32(0), U32(48000), <<Limb - 1, Limb - 1>>},
     channels : {0, 2, U8Mod - 1},
     samples_per_channel : {0, 480, U16Max},
     len : {0, 1, 2, 3}]
BigArgs ==
    [seq : {<<Limb - 1, Limb - 1>>}, sample_rate : {U32(48000)}, channels : {2},
     samples_per_channel : {U16Max},
     len : {U16Max - HEADER_SIZE, U16Max - HEADER_SIZE + 1, U16Max, U16Max + 1}]
NoRet == [ok |-> FALSE, err |-> "none", packet |-> <<>>]
InitBuild ==
    /\ InitPipeline(BacklogConfig, <<>>, ZeroStats, U32(0), U64(0), 0)
    /\ \E a \in SmallArgs \cup BigArgs :
          bp = [st |-> "call", seq |-> a.seq, sample_rate |-> a.sample_rate,
                channels |-> a.channels, samples_per_channel |-> a.samples_per_channel,
                payload |-> PayloadBytes(a.len), wall |-> BeforeEpoch, ret |-> NoRet]
\* Lines 544-573: the call reads the clock and returns.
BuildPacketCall ==
    /\ bp.st = "call"
    /\ \E wall \in BuildClocks :
          bp' = [bp EXCEPT !.st = "ret", !.wall = wall,
                           !.ret = build_packet(bp.seq, bp.sample_rate, bp.channels,
                                                bp.samples_per_channel, bp.payload, wall)]
    /\ UNCHANGED <<cfg, now, queue, txAlive, stats, prodVars, sendVars, last, sentBase, boot, desk>>
NextBuild == BuildPacketCall
SpecBuild == InitBuild /\ [][NextBuild]_vars

\* ------------------------------------------------------------ main: startup
\* Values of --frame-ms: below, inside and above the accepted range.
FrameMsArgs == {0, 1, 5, 20, 21, 1000}
\* The default input device of the mic source: rate and channels.
MicDevice == <<8000, 1>>
DESKTOP_SAMPLE_RATE == 48000
DESKTOP_CHANNELS == 2
ReadyCap == 1
RangeError == "--frame-ms must be in range [1, 20]"
TimeoutError == "desktop capture thread did not initialize in time"

\* What the pipeline will run with: --frame-ms and --transport as given, rate
\* and channels those of the source.
StartupCfg(src, f, tr) ==
    [sample_rate |-> IF src = "desktop" THEN DESKTOP_SAMPLE_RATE ELSE MicDevice[1],
     frame_ms |-> f,
     channels |-> IF src = "desktop" THEN DESKTOP_CHANNELS ELSE MicDevice[2],
     transport |-> tr]

\* main after Args::parse(): nothing started, nothing opened.
InitStartup ==
    \E f \in FrameMsArgs, l \in BOOLEAN, ip \in {"none", "bad", "ok"},
       src \in {"mic", "desktop"}, tr \in {"udp", "tcp"} :
        /\ InitState(StartupCfg(src, f, tr), <<>>, ZeroStats, U32(0), U64(0), 0,
                     "not_started")
        /\ bp = NoCall
        /\ boot = [pc |-> "list", list |-> l, target_ip |-> ip, source |-> src,
                   exit |-> "running", adapters |-> 0, sockets |-> 0]
        /\ desk = NoThread

\* main returns Err(msg) (or Ok for msg = "ok"): the process exits.
MainReturns(msg) == boot' = [boot EXCEPT !.pc = "exited", !.exit = msg]
pipeVars == <<cfg, now, queue, txAlive, stats, prodVars, sendVars, last, bp, sentBase>>

\* Lines 130-133.
MainListDevices ==
    /\ boot.pc = "list"
    /\ IF boot.list
       THEN \E r \in {"ok", "failed to get render device collection"} : MainReturns(r)
       ELSE boot' = [boot EXCEPT !.pc = "frame_ms"]
    /\ UNCHANGED <<pipeVars, desk>>

\* main without the range check.
MainFrameMsUnchecked ==
    /\ boot.pc = "frame_ms"
    /\ boot' = [boot EXCEPT !.pc = "target"]
    /\ UNCHANGED <<pipeVars, desk>>

\* Lines 134-136.
MainFrameMs ==
    /\ boot.pc = "frame_ms"
    /\ IF cfg.frame_ms \in MinFrameMs..MaxFrameMs
       THEN boot' = [boot EXCEPT !.pc = "target"]
       ELSE MainReturns(RangeError)
    /\ UNCHANGED <<pipeVars, desk>>

\* Lines 138-148: the target endpoint, then the channel and the counters.
MainTarget ==
    /\ boot.pc = "target"
    /\ IF boot.target_ip = "none"
       THEN MainReturns("--target-ip is required unless --list-desktop-devices is used")
       ELSE IF boot.target_ip = "bad"
       THEN MainReturns("invalid target endpoint")
       ELSE boot' = [boot EXCEPT !.pc = "capture"]
    /\ UNCHANGED <<pipeVars, desk>>

\* Lines 150-155 with start_mic_capture (230-254) and the first half of
\* start_desktop_capture (262-280): the stream is built and played, or the
\* loopback thread is spawned.
MainStartCapture ==
    /\ boot.pc = "capture"
    /\ IF boot.source = "mic"
       THEN /\ \E r \in {"ok", "no default input device found"} :
                 IF r = "ok"
                 THEN boot' = [boot EXCEPT !.pc = "stats", !.adapters = @ + 1]
                 ELSE MainReturns(r)
            /\ UNCHANGED desk
       ELSE \E r \in {"ok", "failed to spawn desktop capture thread"} :
                 IF r = "ok"
                 THEN /\ boot' = [boot EXCEPT !.pc = "handshake", !.adapters = @ + 1]
                      /\ desk' = [NoThread EXCEPT !.pc = "init", !.rxAlive = TRUE]
                 ELSE MainReturns(r) /\ UNCHANGED desk
    /\ UNCHANGED pipeVars

\* ready_rx.recv_timeout(5 s): the message if one is there, else the timeout.
recv_timeout(ready) ==
    IF ready # <<>> THEN Head(ready) ELSE [ok |-> FALSE, text |-> TimeoutError]

\* Lines 282-285, and the return of start_desktop_capture, which drops ready_rx.
MainHandshake ==
    /\ boot.pc = "handshake"
    /\ LET r == recv_timeout(desk.ready)
       IN boot' = IF r.ok THEN [boot EXCEPT !.pc = "stats"]
                  ELSE [boot EXCEPT !.pc = "returning", !.exit = r.text]
    /\ desk' = [desk EXCEPT !.ready = <<>>, !.rxAlive = FALSE]
    /\ UNCHANGED pipeVars

\* The error of start_desktop_capture goes up through main (line 153).
MainAbort ==
    /\ boot.pc = "returning"
    /\ boot' = [boot EXCEPT !.pc = "exited"]
    /\ UNCHANGED <<pipeVars, desk>>

\* Lines 157-174.
MainSpawnStats ==
    /\ boot.pc = "stats"
    /\ boot' = [boot EXCEPT !.pc = "socket"]
    /\ UNCHANGED <<pipeVars, desk>>

\* Lines 176-182 or 199-205: bind or connect; then send_loop is called.
MainSocket ==
    /\ boot.pc = "socket"
    /\ \E r \in {"ok", IF cfg.transport = "udp" THEN "failed to bind UDP sender socket"
                                               ELSE "failed to connect TCP stream"} :
          IF r = "ok"
          THEN /\ boot' = [boot EXCEPT !.pc = "send_loop", !.sockets = @ + 1]
               /\ spc' = "recv"
          ELSE MainReturns(r) /\ UNCHANGED spc
    /\ UNCHANGED <<cfg, now, queue, txAlive, stats, prodVars, last, bp, sentBase, desk,
                   seq, acc, acc_capture, chunk, loc, err, received, nrecv, sinkLog>>

Main ==
    \/ MainListDevices
    \/ MainFrameMs
    \/ MainTarget
    \/ MainStartCapture
    \/ MainHandshake
    \/ MainAbort
    \/ MainSpawnStats
    \/ MainSocket

\* ------------------------------------------- the loopback thread: its start
\* Lines 321-370: every step of the initialisation succeeds, or one fails and
\* desktop_capture_inner returns, dropping tx.
DeskInit ==
    /\ desk.pc = "init" /\ boot.pc # "exited"
    /\ \E ok \in BOOLEAN :
          /\ desk' = [desk EXCEPT !.pc = IF ok THEN "send_ok" ELSE "send_err"]
          /\ txAlive' = (txAlive /\ ok)
    /\ UNCHANGED <<cfg, now, queue, stats, prodVars, sendVars, last, bp, sentBase, boot>>

\* A send that waits for the parent to take the message first.
ready_send_rendezvous(ready, alive, msg) ==
    [blocks |-> alive, ready |-> IF alive THEN Append(ready, msg) ELSE ready]

\* SyncSender::send on the ready channel: an error at once if ready_rx is
\* gone, else the message is buffered if there is room, else the call waits.
ready_send(ready, alive, msg) ==
    IF ~alive THEN [blocks |-> FALSE, ready |-> ready]
    ELSE IF Len(ready) < ReadyCap THEN [blocks |-> FALSE, ready |-> Append(ready, msg)]
    ELSE [blocks |-> TRUE, ready |-> ready]

\* Line 372 (the name) or line 309 (the error); the result is ignored.
DeskReady ==
    /\ desk.pc \in {"send_ok", "send_err"} /\ boot.pc # "exited"
    /\ LET msg == IF desk.pc = "send_ok"
                  THEN [ok |-> TRUE, text |-> "device name"]
                  ELSE [ok |-> FALSE, text |-> "failed to initialize desktop loopback client"]
           r == ready_send(desk.ready, desk.rxAlive, msg)
       IN /\ ~r.blocks
          /\ desk' = [desk EXCEPT !.ready = r.ready, !.sends = @ + 1,
                                  !.pc = IF desk.pc = "send_ok" THEN "loop" ELSE "ended"]
    /\ UNCHANGED <<pipeVars, boot>>

NextStartup == Main \/ DeskInit \/ DeskReady
SpecStartup == InitStartup /\ [][NextStartup]_vars

\* ---------------------------------------- the loopback thread: its loop
\* What the render endpoint plays, as the f32 words the capture client hands
\* over low byte first: 0.5, -1.0, 2.0, -0.75, a NaN, 0.0, -infinity, 1/256.
\* The low two bytes of every word are 0.
DevWords ==
    <<(<<0, 0, 0, 63>>), (<<0, 0, 128, 191>>), (<<0, 0, 0, 64>>), (<<0, 0, 64, 191>>),
      (<<0, 0, 192, 127>>), (<<0, 0, 0, 0>>), (<<0, 0, 128, 255>>), (<<0, 0, 128, 59>>)>>
\* The k-th byte the device ever delivers.
DevByte(k) == DevWords[(((k - 1) \div 4) % Len(DevWords)) + 1][((k - 1) % 4) + 1]
\* Sizes of what one read appends: nothing, part of a frame, one frame, a frame
\* and a half, two frames.
ReadSizes == {0, 3, 8, 12, 16}
MaxReads == 3

\* 2^n for the shifts below.
Pow2(n) == IF n >= 30 THEN 2 ^ 30 ELSE 2 ^ n

\* f32::from_le_bytes(b), clamp(-1.0, 1.0), times i16::MAX as f32, `as i16`
\* (lines 397-399), for words whose low two bytes are 0: the product of the
\* 8-bit significand and 32767 is exact in f32, and the cast truncates toward
\* zero, saturates, and takes NaN to 0.
F32ToI16(b) ==
    LET negative == b[4] \div 128 = 1
        e == (b[4] % 128) * 2 + b[3] \div 128
        m == b[3] % 128
        mag == IF e = 255 /\ m # 0 THEN 0
               ELSE IF e >= 127 THEN I16Max
               ELSE IF e = 0 \/ 134 - e >= 30 THEN 0
               ELSE ((128 + m) * I16Max) \div Pow2(134 - e)
    IN IF negative THEN 0 - mag ELSE mag

\* Lines 406-415: None leaves the queue as it is.
pop_f32_le(q) ==
    IF Len(q) < 4 THEN [some |-> FALSE, bytes |-> <<>>, rest |-> q]
    ELSE [some |-> TRUE, bytes |-> SubSeq(q, 1, 4), rest |-> SubSeq(q, 5, Len(q))]

RECURSIVE Drain(_, _)
\* Lines 395-401: n samples popped off q one after the other;
\* unwrap_or(0.0) gives 0 for None.
Drain(q, n) ==
    IF n = 0 THEN [chunk |-> <<>>, rest |-> q]
    ELSE LET p == pop_f32_le(q)
             d == Drain(p.rest, n - 1)
         IN [chunk |-> <<IF p.some THEN F32ToI16(p.bytes) ELSE 0>> \o d.chunk,
             rest |-> d.rest]

\* The frame count rounded up.
available_frames_ceil(len, frame_bytes) == (len + frame_bytes - 1) \div frame_bytes

\* Line 392.
available_frames(len, frame_bytes) == len \div frame_bytes

\* Line 375.
frame_bytes == cfg.channels * 4

\* The loop written with `break` on a failed wait: the thread ends and tx goes.
LoopWaitBreak ==
    /\ desk.pc = "loop" /\ ppc = "idle"
    /\ \E ok \in BOOLEAN :
          IF ok THEN desk' = [desk EXCEPT !.pc = "read", !.event = "wait_ok"] /\ UNCHANGED txAlive
          ELSE desk' = [desk EXCEPT !.pc = "ended", !.event = "wait_err"] /\ txAlive' = FALSE
    /\ UNCHANGED <<cfg, now, queue, stats, prodVars, sendVars, last, bp, sentBase, boot>>

\* Lines 378-381; the thread is back here once enqueue_audio_chunk has returned.
LoopWait ==
    /\ desk.pc = "loop" /\ ppc = "idle"
    /\ \E ok \in BOOLEAN :
          desk' = [desk EXCEPT !.pc = IF ok THEN "read" ELSE "loop",
                               !.event = IF ok THEN "wait_ok" ELSE "wait_err"]
    /\ UNCHANGED <<pipeVars, boot>>

\* Lines 383-387: the read appends what the device has, or fails.
LoopRead ==
    /\ desk.pc = "read"
    /\ \/ /\ desk.reads < MaxReads
          /\ \E n \in ReadSizes :
                LET at == Len(desk.byte_queue) + nsamp * 4
                IN desk' = [desk EXCEPT
                              !.pc = "check", !.event = "read_ok", !.reads = @ + 1,
                              !.byte_queue = @ \o [i \in 1..n |-> DevByte(at + i)]]
       \/ desk' = [desk EXCEPT !.pc = "loop", !.event = "read_err"]
    /\ UNCHANGED <<pipeVars, boot>>

\* Lines 389-402 up to the entry of enqueue_audio_chunk (417-420): too little
\* for a frame and the pass is over; else the whole frames are converted and
\* the chunk, never empty, is handed to enqueue_audio_chunk.
LoopConvert ==
    /\ desk.pc = "check"
    /\ IF Len(desk.byte_queue) < frame_bytes
       THEN /\ desk' = [desk EXCEPT !.pc = "loop"]
            /\ UNCHANGED <<ppc, pchunk, offered, nsamp>>
       ELSE LET frames == available_frames(Len(desk.byte_queue), frame_bytes)
                d == Drain(desk.byte_queue, frames * cfg.channels)
            IN /\ offered < MaxOffered
               /\ desk' = [desk EXCEPT !.pc = "loop", !.byte_queue = d.rest]
               /\ offered' = offered + 1
               /\ nsamp' = nsamp + Len(d.chunk)
               /\ IF d.chunk = <<>>
                  THEN UNCHANGED <<ppc, pchunk>>
                  ELSE ppc' = "captured_samples" /\ pchunk' = d.chunk
    /\ UNCHANGED <<cfg, now, queue, txAlive, stats, accepted, dropped, sendVars, last,
                   bp, sentBase, boot>>

DeskLoop == LoopWait \/ LoopRead \/ LoopConvert

\* The desktop source at 5 ms, the handshake done, send_loop entered and not
\* yet scheduled again.
LoopConfig ==
    [sample_rate |-> DESKTOP_SAMPLE_RATE, frame_ms |-> 5, channels |-> DESKTOP_CHANNELS,
     transport |-> "udp"]
InitLoop ==
    /\ InitState(LoopConfig, <<>>, ZeroStats, U32(0), U64(0), 0, "recv")
    /\ bp = NoCall
    /\ boot = [InSendLoop EXCEPT !.source = "desktop"]
    /\ desk = [NoThread EXCEPT !.pc = "loop", !.sends = 1]
NextLoop == DeskLoop \/ InCall
SpecLoop == InitLoop /\ [][NextLoop]_vars

\* ===================================================================== claims
spp == samples_per_packet(cfg)
Running == spc # "returned"
Payload(packet) == SubSeq(packet, HEADER_SIZE + 1, Len(packet))
Low32(x) == SubSeq(x, 1, 2)

RECURSIVE DecodeSamples(_)
\* What a receiver reads from a payload: one i16 from every two bytes.
DecodeSamples(bs) ==
    IF Len(bs) < 2 THEN <<>>
    ELSE <<I16FromLE(SubSeq(bs, 1, 2))>> \o DecodeSamples(SubSeq(bs, 3, Len(bs)))

RECURSIVE EmittedOf(_)
EmittedOf(log) ==
    IF log = <<>> THEN <<>>
    ELSE DecodeSamples(Payload(Head(log).packet)) \o EmittedOf(Tail(log))

\* The samples of all packets handed to the sink so far, in emission order.
Emitted == EmittedOf(sinkLog)
\* The samples of the packet being built or about to be handed to the sink.
InFlight ==
    IF spc \in {"build", "packet_build_us_sum", "packet_build_count", "send"}
    THEN DecodeSamples(loc.payload) ELSE <<>>
\* The samples of a chunk received and not yet appended to acc.
Pending ==
    IF spc \in {"capture_queue_us_sum", "capture_queue_count"}
    THEN chunk.samples ELSE <<>>
AtLoopHead == spc \in {"recv", "while"}

\* C1: in send_loop with samples_per_packet >= 1, the samples decoded
\* little-endian from the payloads of the packets emitted so far, followed by the
\* samples held in acc, are exactly the samples of the received chunks in receive
\* order; inside an iteration the samples in transit (the payload being built or
\* sent, the chunk being appended) sit between them.
C1_SampleConservation ==
    (Running /\ spp >= 1) =>
        /\ Emitted \o InFlight \o acc \o Pending = Flatten(received)
        /\ AtLoopHead => Emitted \o acc = Flatten(received)

\* A packet of two samples made of a one-sample chunk and the first sample of a
\* two-sample chunk, whose second sample stays in acc.
C1_Witness ==
    /\ spc = "recv" /\ spp = 2
    /\ Len(received) = 2 /\ received[1].samples = <<-2>>
    /\ received[2].samples = <<258, 32767>>
    /\ Len(sinkLog) = 1 /\ Payload(sinkLog[1].packet) = <<254, 255, 2, 1>>
    /\ acc = <<32767>>

\* C2: each time send_loop is back at the blocking receive, having processed
\* chunks totalling S samples with every send succeeding, exactly
\* floor(S / samples_per_packet) packets were handed to the sink and acc holds
\* S mod samples_per_packet samples, fewer than one packet.
C2_PacketCount ==
    (spc = "recv" /\ spp >= 1) =>
        LET S == Len(Flatten(received)) IN
        /\ \A i \in 1..Len(sinkLog) : sinkLog[i].ok
        /\ Len(sinkLog) = S \div spp
        /\ Len(acc) = S % spp
        /\ Len(acc) < spp

\* Four samples at two samples per packet: two packets and an empty acc.
C2_Witness ==
    /\ spc = "recv" /\ spp = 2 /\ Len(Flatten(received)) = 4
    /\ Len(sinkLog) = 2 /\ acc = <<>>

HdrSeq(packet) == WFromLE(SubSeq(packet, 13, 16))
OkCount == Cardinality({i \in 1..Len(sinkLog) : sinkLog[i].ok})
\* The sink has returned Ok and line 521 has not run yet.
AfterSend ==
    spc \in {"socket_send_us_sum", "socket_send_count", "sent_packets", "sent_bytes",
             "capture_to_send_us_sum", "capture_to_send_count"}

\* C3: the k-th packet handed to the sink carries k mod 2^32 in its header and
\* in the seq argument of the sink, k counting all packets since send_loop
\* started; seq is the number of packets sent successfully, modulo 2^32, and is
\* advanced only after the sink has returned Ok.
C3_Sequence ==
    /\ \A i \in 1..Len(sinkLog) :
          /\ sinkLog[i].seq = Low32(AddW(sentBase, i - 1))
          /\ HdrSeq(sinkLog[i].packet) = sinkLog[i].seq
    /\ seq = Low32(AddW(sentBase, OkCount - (IF AfterSend THEN 1 ELSE 0)))

\* The packet numbered 2^32 - 1 is followed by the packet numbered 0.
C3_Witness ==
    \E i \in 1..Len(sinkLog) :
        /\ i > 1
        /\ sinkLog[i - 1].seq = <<Limb - 1, Limb - 1>>
        /\ sinkLog[i].seq = <<0, 0>>
        /\ SubSeq(sinkLog[i - 1].packet, 13, 16) = <<255, 255, 255, 255>>
        /\ SubSeq(sinkLog[i].packet, 13, 16) = <<0, 0, 0, 0>>

\* The chunks send_loop received, followed by those the queue holds, are the
\* chunks the queue accepted, and every sample the sink was or is being handed
\* comes from a received chunk: a discarded chunk is in neither.
OnlyAcceptedReachSink ==
    /\ received \o queue = accepted
    /\ Running => Emitted \o InFlight \o acc \o Pending = Flatten(received)

\* C4: when enqueue_audio_chunk finds the queue holding QueueCap chunks, the
\* queue is left as it is and the new chunk is discarded; the call then adds
\* exactly 1 to capture_drops and nothing to captured_chunks; and no sample of a
\* discarded chunk reaches the sink.
C4_DropNewest ==
    [][/\ (ppc = "try_send" /\ Len(queue) = QueueCap /\ ppc' # ppc) =>
            /\ queue' = queue
            /\ accepted' = accepted
            /\ dropped' = Append(dropped, [samples |-> pchunk, captured_at |-> now])
            /\ ppc' = "capture_drops"
       /\ (ppc = "capture_drops" /\ ppc' # ppc) =>
            /\ stats' = [stats EXCEPT !.capture_drops = AddW(@, 1)]
            /\ queue' = queue
            /\ ppc' = "idle"
       /\ OnlyAcceptedReachSink']_vars

\* A chunk was discarded on the full queue and counted, and the sender has
\* sent a packet since.
C4_Witness ==
    /\ ppc = "idle" /\ Len(dropped) = 1
    /\ stats.capture_drops = U64(1) /\ stats.captured_chunks = U64(QueueCap)
    /\ Len(sinkLog) >= 1

PcRank ==
    [idle |-> 0, captured_samples |-> 1, captured_abs_sum |-> 2, captured_nonzero |-> 3,
     try_send |-> 4, captured_chunks |-> 5, capture_drops |-> 5]

\* C5: a call of enqueue_audio_chunk never waits: whatever the state of the
\* queue and of the sender, its next step can be taken, and every step brings the
\* call strictly closer to its return, so the call ends within a fixed number of
\* its own steps.
C5_ProducerNeverBlocks ==
    /\ [](ppc # "idle" => ENABLED InCall)
    /\ [][InCall => (PcRank[ppc'] > PcRank[ppc] \/ ppc' = "idle")]_vars

\* The producer is at its try_send while the queue is full and the sender sits
\* in a sink call.
C5_Witness == ppc = "try_send" /\ Len(queue) = QueueCap /\ spc = "send"

\* The errors with which build_packet ends send_loop.
BuildErrors == {"payload too large", "system clock before unix epoch"}
\* The queue holds exactly the accepted chunks not yet received, in order.
FifoOnce == accepted = received \o queue
\* A step that takes a chunk off the queue is the receive of send_loop taking
\* its head; any other change of the queue is the producer's try_send appending.
OnlySendLoopRemoves ==
    [][queue' # queue =>
         \/ /\ spc = "recv" /\ spc' = "capture_queue_us_sum"
            /\ queue' = Tail(queue) /\ received' = Append(received, Head(queue))
         \/ /\ ppc = "try_send" /\ received' = received
            /\ queue' = Append(queue, [samples |-> pchunk, captured_at |-> now])]_vars
\* A round of the telemetry reader leaves the queue and the histories alone.
ReaderOnlyLooks ==
    [][last' # last => queue' = queue /\ received' = received /\ accepted' = accepted]_vars

C7_AsStated ==
    [][(~txAlive /\ spc # "returned" /\ spc' = "returned")
          => err'.msg = "audio capture channel closed"]_vars

\* C7: once every producer handle is gone send_loop returns; it returns with
\* 'audio capture channel closed' only from its receive, with the queue drained,
\* every accepted chunk received and less than one packet of samples left; it
\* returns with another error only out of a failed build_packet or sink call;
\* and after its return no packet is handed to the sink.
C7_Closure ==
    /\ (~txAlive) ~> (spc = "returned")
    /\ []((spc = "returned" /\ err.msg = "audio capture channel closed")
            => (~txAlive /\ queue = <<>> /\ received = accepted /\ Len(acc) < spp))
    /\ [][(spc # "returned" /\ spc' = "returned") =>
            \/ spc = "recv" /\ err'.msg = "audio capture channel closed"
            \/ spc = "build" /\ err'.msg \in BuildErrors
            \/ spc = "send" /\ err'.msg = "send failed"]_vars
    /\ [][spc = "returned" => (spc' = "returned" /\ sinkLog' = sinkLog)]_vars

\* The producer side went away, the sender received what was queued, sent a
\* packet and returned from its failed receive.
C7_Witness ==
    /\ ~txAlive /\ spc = "returned" /\ err.msg = "audio capture channel closed"
    /\ Len(received) = 2 /\ Len(sinkLog) >= 1 /\ acc # <<>>

\* The header fields of a packet as a receiver decodes them (bytes from 1).
HdrChannelsOf(p) == p[7]
HdrSamplesPerChannelOf(p) == FromLE(SubSeq(p, 25, 26))
HdrPayloadLenOf(p) == FromLE(SubSeq(p, 27, 28))
FrameOk(p) ==
    /\ HdrSamplesPerChannelOf(p) = (cfg.sample_rate * cfg.frame_ms) \div 1000
    /\ HdrChannelsOf(p) = cfg.channels
    /\ HdrPayloadLenOf(p) = HdrSamplesPerChannelOf(p) * HdrChannelsOf(p) * 2
    /\ Len(p) - HEADER_SIZE = HdrSamplesPerChannelOf(p) * HdrChannelsOf(p) * 2

\* C8: for sample_rate in {8000, 16000, 44100, 48000}, frame_ms in 1..20 and one
\* or two channels, every packet handed to the sink carries the same
\* samples_per_channel, floor(sample_rate * frame_ms / 1000), and its payload
\* length field and its actual payload length are samples_per_channel *
\* channels * 2 with the channels of its header.
C8_FrameSize ==
    cfg \in FrameConfigs =>
        /\ \A i \in 1..Len(sinkLog) : FrameOk(sinkLog[i].packet)
        /\ spc \in {"packet_build_us_sum", "packet_build_count", "send"}
             => FrameOk(loc.packet)

\* Two packets of a 44.1 kHz stereo stream with 5 ms frames (220.5 samples per
\* channel before the floor) have been sent.
C8_Witness ==
    /\ cfg.sample_rate = 44100 /\ cfg.frame_ms = 5 /\ cfg.channels = 2
    /\ Len(sinkLog) = 2 /\ sinkLog[2].ok

\* C9 as stated: a packet build_packet returns is at most 65 535 bytes long.
C9_AsStated == (bp.st = "ret" /\ bp.ret.ok) => Len(bp.ret.packet) <= U16Max

\* C10 as stated: for any arguments with a payload of at most 65 535 bytes
\* build_packet returns a packet of 28 + |payload| bytes.
C10_AsStated ==
    (bp.st = "ret" /\ Len(bp.payload) <= U16Max)
        => (bp.ret.ok /\ Len(bp.ret.packet) = HEADER_SIZE + Len(bp.payload))

\* C10: for any seq, sample_rate, channels, samples_per_channel and payload of
\* at most 65 535 bytes, build_packet called with the clock at or after the
\* epoch returns 28 + |payload| bytes: 'AUD0', 1, 0, channels, 0, sample_rate,
\* seq, the clock's microseconds, samples_per_channel and the payload length,
\* all little-endian, then the payload; decoding the fields gives the inputs
\* back.  Called with the clock before the epoch it returns only an error.
C10_Layout ==
    (bp.st = "ret" /\ Len(bp.payload) <= U16Max) =>
        IF bp.wall = BeforeEpoch
        THEN ~bp.ret.ok /\ bp.ret.err = "system clock before unix epoch"
        ELSE LET p == bp.ret.packet IN
             /\ bp.ret.ok
             /\ Len(p) = 28 + Len(bp.payload)
             /\ \A i \in 1..Len(p) : p[i] \in 0..255
             /\ SubSeq(p, 1, 4) = <<65, 85, 68, 48>>
             /\ p[5] = 1 /\ p[6] = 0 /\ p[7] = bp.channels /\ p[8] = 0
             /\ WFromLE(SubSeq(p, 9, 12)) = bp.sample_rate
             /\ WFromLE(SubSeq(p, 13, 16)) = bp.seq
             /\ WFromLE(SubSeq(p, 17, 24)) = bp.wall
             /\ FromLE(SubSeq(p, 25, 26)) = bp.samples_per_channel
             /\ FromLE(SubSeq(p, 27, 28)) = Len(bp.payload)
             /\ SubSeq(p, 29, Len(p)) = bp.payload

\* The largest payload, the largest seq and the largest clock went in and a
\* packet came back.
C10_Witness ==
    /\ bp.st = "ret" /\ bp.ret.ok /\ Len(bp.payload) = U16Max
    /\ bp.seq = <<Limb - 1, Limb - 1>> /\ bp.wall = <<Limb - 1, Limb - 1, Limb - 1, Limb - 1>>

RECURSIVE WireOf(_)
\* The bytes the sink calls of a log have put on the TCP connection, in order.
WireOf(log) == IF log = <<>> THEN <<>> ELSE Head(log).wrote \o WireOf(Tail(log))
RECURSIVE FramedOf(_)
\* The packets of a log, each behind its length as two bytes, low byte first.
FramedOf(log) ==
    IF log = <<>> THEN <<>>
    ELSE <<Len(Head(log).packet) % 256, Len(Head(log).packet) \div 256>>
         \o Head(log).packet \o FramedOf(Tail(log))

\* C11: on the TCP transport, as long as every sink call has succeeded, the
\* bytes on the connection are the packets in sequence order, each behind its
\* 2-byte little-endian length (a 988-byte packet behind 0xDC 0x03); the call
\* for a packet longer than 65 535 bytes writes nothing and fails, and
\* send_loop returns.
C11_StreamFraming ==
    cfg.transport = "tcp" =>
        /\ (\A i \in 1..Len(sinkLog) : sinkLog[i].ok) => WireOf(sinkLog) = FramedOf(sinkLog)
        /\ \A i \in 1..Len(sinkLog) :
             /\ HdrSeq(sinkLog[i].packet) = Low32(AddW(sentBase, i - 1))
             /\ (sinkLog[i].ok /\ Len(sinkLog[i].packet) = 988)
                  => SubSeq(sinkLog[i].wrote, 1, 2) = <<220, 3>>
             /\ Len(sinkLog[i].packet) > 65535
                  => /\ ~sinkLog[i].ok /\ sinkLog[i].wrote = <<>>
                     /\ spc = "returned" /\ err.msg = "send failed"

\* Two 988-byte packets have gone out on the TCP connection.
C11_Witness ==
    /\ cfg.transport = "tcp" /\ Len(sinkLog) = 2
    /\ \A i \in 1..2 : sinkLog[i].ok /\ Len(sinkLog[i].packet) = 988

\* The four sum/count pairs of SenderStats (lines 33-40).
MetricPairs ==
    {<<"capture_queue_us_sum", "capture_queue_count">>,
     <<"capture_to_send_us_sum", "capture_to_send_count">>,
     <<"packet_build_us_sum", "packet_build_count">>,
     <<"socket_send_us_sum", "socket_send_count">>}

\* C12 as stated, on what the reader holds: if the sum and the count of a pair
\* cover the same events, a snapshot whose count is 0 covers no event and its
\* sum is 0.
C12_AsStated ==
    \A pr \in MetricPairs : last[pr[2]] = U64(0) => last[pr[1]] = U64(0)

RECURSIVE OwnerAt(_, _)
\* captured_at of the chunk of cs that holds the k-th sample of Flatten(cs).
OwnerAt(cs, k) ==
    IF k <= Len(Head(cs).samples) THEN Head(cs).captured_at
    ELSE OwnerAt(Tail(cs), k - Len(Head(cs).samples))

\* A packet has been cut from acc and the sink has not been called for it yet.
BeforeSend == spc \in {"build", "packet_build_us_sum", "packet_build_count", "send"}
\* The index, among the samples received, of the first sample of the packet
\* send_loop is working on.
FirstSampleIndex ==
    (IF BeforeSend THEN Len(sinkLog) ELSE Len(sinkLog) - 1) * spp + 1

\* C13: for every packet cut from acc (samples_per_packet >= 1),
\* consume_capture_time returns a timestamp, never none, and it is the
\* captured_at of the received chunk that contributed the packet's first
\* sample; capture_to_send_count has one sample for every packet sent, the one
\* for the packet just sent being added last (line 519).
C13_CaptureTime ==
    (spp >= 1) =>
        /\ (BeforeSend \/ AfterSend) =>
              loc.capture_time = <<OwnerAt(received, FirstSampleIndex)>>
        /\ stats.capture_to_send_count =
              AddW(sentBase, OkCount - (IF AfterSend THEN 1 ELSE 0))

\* A chunk of samples_per_packet - 1 samples stamped T0, then a chunk of one
\* sample stamped T1 > T0: one packet, sent, its latency measured against T0.
C13_Witness ==
    /\ spc = "capture_to_send_count" /\ spp = 2
    /\ Len(received) = 2 /\ Len(sinkLog) = 1
    /\ Len(received[1].samples) = 1 /\ Len(received[2].samples) = 1
    /\ received[2].captured_at > received[1].captured_at
    /\ loc.capture_time = <<received[1].captured_at>>
    /\ stats.capture_to_send_us_sum = U64(now - received[1].captured_at)
    /\ now > received[2].captured_at

\* C14, as stated: whenever send_loop has returned because the sink failed, its
\* error carries the sequence number of the packet the sink was given.
C14_AsStated ==
    (spc = "returned" /\ err.msg = "send failed") => err.seq = seq

\* C15: build_packet fails for every payload longer than 65 535 bytes, whatever
\* the clock reads; the step of send_loop that calls it then returns that error
\* and leaves seq and all counters (sent_packets, sent_bytes, the packet-build
\* pair among them) as they were, and the sink is not called, then or later.
C15_BuildFailure ==
    /\ [][(spc = "build" /\ Len(loc.payload) > U16Max) =>
            /\ spc' = "returned" /\ err'.msg = "payload too large"
            /\ UNCHANGED <<sinkLog, seq, stats>>]_vars
    /\ [][spc = "returned" => UNCHANGED <<spc, sinkLog, seq, stats>>]_vars

\* send_loop has returned on a payload of 65 536 bytes, nothing sent.
C15_Witness ==
    /\ spc = "returned" /\ err.msg = "payload too large"
    /\ Len(loc.payload) = U16Max + 1
    /\ sinkLog = <<>> /\ seq = U32(0)
    /\ stats.packet_build_count = U64(0) /\ stats.sent_packets = U64(0)

\* C16: each of the 15 counters is non-decreasing over every step of the
\* producer, the sender and the telemetry reader, and a step in which the reader
\* takes its snapshot leaves all counters and the contents of the capture queue
\* unchanged.
C16_Monotone ==
    /\ [][\A f \in DOMAIN stats : LeqW(stats[f], stats'[f])]_vars
    /\ [][last' # last => UNCHANGED <<stats, queue>>]_vars
    /\ [](Cardinality(DOMAIN stats) = 15)

\* The reader has just taken a snapshot of counters the sender and the producer
\* have moved, with a chunk waiting in the queue.
C16_Witness ==
    /\ last = stats /\ queue # <<>>
    /\ stats.sent_packets # U64(0) /\ stats.captured_chunks # U64(0)
    /\ stats.capture_to_send_count # U64(0)

FrameMsOutOfRange == cfg.frame_ms \notin MinFrameMs..MaxFrameMs
\* No capture adapter started, no socket opened, send_loop not entered and no
\* packet handed to a sink.
NothingStarted ==
    /\ boot.adapters = 0 /\ boot.sockets = 0 /\ desk = NoThread
    /\ spc = "not_started" /\ sinkLog = <<>>

\* C17, as stated: whenever main has returned for a configuration whose
\* frame_ms is outside [1, 20], whatever the other fields, it has returned an
\* error.
C17_AsStated ==
    (FrameMsOutOfRange /\ boot.pc = "exited") => boot.exit # "ok"

\* C17, amended: for frame_ms outside [1, 20], main never gets past the range
\* check, so no capture adapter is started, no socket opened and no packet
\* sent; with list_desktop_devices unset it returns the range error, with it
\* set it returns what the listing returns, success included, and the range is
\* not checked.
C17_FrameRange ==
    FrameMsOutOfRange =>
        /\ NothingStarted
        /\ boot.pc \in {"list", "frame_ms", "exited"}
        /\ (boot.pc = "exited" /\ ~boot.list) => boot.exit = RangeError
        /\ (boot.pc = "exited" /\ boot.list) => boot.exit # RangeError

\* --frame-ms 21 with a good target: main has returned the range error.
C17_Witness ==
    /\ cfg.frame_ms = 21 /\ ~boot.list /\ boot.target_ip = "ok"
    /\ boot.pc = "exited" /\ boot.exit = RangeError /\ NothingStarted

\* The thread is at one of its two sends on the ready channel.
AtReadySend == desk.pc \in {"send_ok", "send_err"}
\* start_desktop_capture has returned Ok: main is past line 155.
CaptureStarted == boot.pc \in {"stats", "socket", "send_loop"}
\* The step in which recv_timeout returns.
HandshakeStep == boot.pc = "handshake" /\ boot'.pc # "handshake"

\* C18: the loopback thread sends at most one message on the ready channel,
\* the name after a successful initialisation and the error description after
\* a failed one, and its send never has to wait; start_desktop_capture returns
\* Ok only on taking the name from the channel, and an error on taking an error
\* or on finding nothing within the wait; after such an error send_loop is
\* never entered.
C18_Handshake ==
    /\ [](desk.sends <= 1 /\ Len(desk.ready) <= ReadyCap)
    /\ [](\A i \in 1..Len(desk.ready) :
             desk.ready[i].ok <=> desk.pc = "loop")
    /\ [](AtReadySend =>
             ~ready_send(desk.ready, desk.rxAlive, [ok |-> TRUE, text |-> ""]).blocks)
    /\ [][HandshakeStep =>
            IF desk.ready # <<>> /\ Head(desk.ready).ok
            THEN boot'.pc = "stats" /\ desk.pc = "loop"
            ELSE /\ boot'.pc = "returning"
                 /\ boot'.exit = IF desk.ready = <<>> THEN TimeoutError
                                  ELSE Head(desk.ready).text]_vars
    /\ []((boot.source = "desktop" /\ CaptureStarted) =>
             desk.pc = "loop" /\ desk.sends = 1 /\ desk.ready = <<>>)
    /\ [](boot.pc \in {"returning", "exited"} => spc = "not_started")

\* The thread finished its initialisation only after the parent's wait had
\* run out: its send found ready_rx gone and returned at once, and main has
\* returned the timeout error without entering send_loop.
C18_Witness ==
    /\ boot.pc = "exited" /\ boot.exit = TimeoutError
    /\ desk.pc = "loop" /\ desk.sends = 1 /\ desk.ready = <<>>
    /\ spc = "not_started"

LoopPcs == {"loop", "read", "check"}
\* A step in which the thread logs a failed wait or a failed read.
LoopErrorStep ==
    desk'.event # desk.event /\ desk'.event \in {"wait_err", "read_err"}

\* C19: a failed or timed-out wait and a failed read leave the capture queue
\* and all counters unchanged and take the thread back to the wait for the
\* next event; once in its loop the thread stays in it, and its handle of the
\* queue stays alive.
C19_LoopSurvives ==
    /\ [][LoopErrorStep =>
            /\ UNCHANGED <<queue, stats, txAlive>>
            /\ desk.pc \in {"loop", "read"} /\ desk'.pc = "loop"
            /\ desk'.byte_queue = desk.byte_queue]_vars
    /\ [][desk.pc \in LoopPcs => desk'.pc \in LoopPcs]_vars
    /\ [](desk.pc \in LoopPcs => txAlive)

\* After a chunk was queued, a read has failed: the thread waits again, the
\* chunk and the counters are as they were.
C19_Witness ==
    /\ desk.pc = "loop" /\ desk.event = "read_err" /\ ppc = "idle"
    /\ Len(queue) = 1 /\ stats.captured_chunks = U64(1)
    /\ stats.capture_drops = U64(0) /\ txAlive

\* The step that ends a pass which had read something.
ConvertStep == desk.pc = "check" /\ desk'.pc = "loop"
\* The i-th f32 word of a byte sequence.
WordAt(bs, i) == SubSeq(bs, 4 * i - 3, 4 * i)
AllChunks == accepted \o dropped \o (IF pchunk = <<>> THEN <<>> ELSE <<[samples |-> pchunk]>>)

\* C20: every chunk of the loopback adapter holds a positive multiple of
\* channels samples; a pass over a byte_queue of L bytes converts the first
\* floor(L / (channels * 4)) frames, word by word in queue order, and leaves the
\* other bytes, fewer than channels * 4, in byte_queue; with less than one
\* frame in byte_queue it produces no chunk and leaves byte_queue as it is.
C20_WholeFrames ==
    /\ [](\A i \in 1..Len(AllChunks) :
             /\ Len(AllChunks[i].samples) > 0
             /\ Len(AllChunks[i].samples) % cfg.channels = 0)
    /\ [][ConvertStep =>
            LET L == Len(desk.byte_queue)
                n == L \div (cfg.channels * 4)
            IN IF n = 0
               THEN UNCHANGED <<ppc, pchunk, offered, queue>>
                    /\ desk'.byte_queue = desk.byte_queue
               ELSE /\ ppc' = "captured_samples"
                    /\ pchunk' = [i \in 1..(n * cfg.channels) |->
                                    F32ToI16(WordAt(desk.byte_queue, i))]
                    /\ desk'.byte_queue = SubSeq(desk.byte_queue, n * cfg.channels * 4 + 1, L)
                    /\ Len(desk'.byte_queue) < cfg.channels * 4]_vars

\* A pass over a frame and a half: one stereo frame (0.5, -1.0) converted and
\* queued, half a frame left for the next pass.
C20_Witness ==
    /\ Len(accepted) = 1 /\ accepted[1].samples = <<16383, -32767>>
    /\ Len(desk.byte_queue) = 4 /\ desk.pc = "loop" /\ desk.reads = 1

\* What one sent packet adds to sent_bytes: header, payload and the 2 bytes of
\* the stream transport's length prefix.
BytesPerPacket ==
    HEADER_SIZE + spp * 2 + (IF cfg.transport = "tcp" THEN 2 ELSE 0)

\* C21: except between the two increments of lines 510 and 511 (so whenever the
\* sender is between emission iterations), sent_bytes =
\* sent_packets * (28 + samples_per_packet * 2 + overhead), overhead being 2 on
\* the stream transport and 0 on the datagram transport; each of the two
\* counters moves only in its own step after a sink call that returned Ok.
C21_SentBytes ==
    /\ [](spc # "sent_bytes" =>
             stats.sent_bytes = MulW(stats.sent_packets, BytesPerPacket, 0))
    /\ [][stats'.sent_packets # stats.sent_packets =>
            spc = "sent_packets" /\ sinkLog[Len(sinkLog)].ok]_vars
    /\ [][stats'.sent_bytes # stats.sent_bytes =>
            spc = "sent_bytes" /\ sinkLog[Len(sinkLog)].ok]_vars

\* Two packets of two samples sent on the stream transport: 2 * (28 + 4 + 2)
\* bytes, the sender back at the receive.
C21_Witness ==
    /\ spc = "recv" /\ cfg.transport = "tcp" /\ spp = 2
    /\ stats.sent_packets = U64(2) /\ stats.sent_bytes = U64(68)

\* C22, as stated: send_loop never emits a packet without new samples, so it
\* has never handed more packets to the sink than it has received samples.
C22_AsStated == Len(sinkLog) <= Len(Flatten(received))

RECURSIVE SumCounts(_)
\* The samples a queue of (count, captured_at) records stands for.
SumCounts(q) == IF q = <<>> THEN 0 ELSE Head(q).count + SumCounts(Tail(q))

\* One record per received chunk, as line 482 pushes them.
RecordsOf(cs) ==
    [i \in 1..Len(cs) |-> [count |-> Len(cs[i].samples), captured_at |-> cs[i].captured_at]]

\* q is the end of the record sequence rs, its first record possibly holding
\* less than the record of rs it comes from and at least 1.
TailWithSplitHead(q, rs) ==
    /\ Len(q) <= Len(rs)
    /\ \A i \in 1..Len(q) :
          LET r == rs[Len(rs) - Len(q) + i]
          IN /\ q[i].captured_at = r.captured_at
             /\ q[i].count >= 1
             /\ IF i = 1 THEN q[i].count <= r.count ELSE q[i].count = r.count

\* C23: at the head of the emission loop (the start and the end of every
\* iteration), samples_per_packet >= 1, the counts of acc_capture add up to
\* |acc|, every count is at least 1 and the records are those of the last
\* received chunks in arrival order, only the first possibly reduced; the call
\* of consume_capture_time in an iteration takes exactly samples_per_packet
\* samples off the front of the records and splits at most the last record it
\* touches.
C23_CaptureRecords ==
    /\ []((spc = "while" /\ spp >= 1) =>
             /\ SumCounts(acc_capture) = Len(acc)
             /\ TailWithSplitHead(acc_capture, RecordsOf(received)))
    /\ [][(spc = "while" /\ spc' = "build" /\ spp >= 1) =>
             /\ SumCounts(acc_capture') = SumCounts(acc_capture) - spp
             /\ TailWithSplitHead(acc_capture', acc_capture)]_vars

\* A packet of one sample was cut from a chunk of two: the record of the chunk
\* is still there, for the one sample left in acc.
C23_Witness ==
    /\ spc = "while" /\ spp = 1 /\ Len(sinkLog) = 1 /\ Len(acc) = 1
    /\ Len(received) = 1 /\ Len(received[1].samples) = 2
    /\ acc_capture = <<[count |-> 1, captured_at |-> received[1].captured_at]>>

\* Chunks dequeued by send_loop and not yet counted in capture_queue_count.
SenderHolds ==
    IF spc \in {"capture_queue_us_sum", "capture_queue_count"} THEN 1 ELSE 0
\* Chunks accepted by the queue and not yet counted in captured_chunks.
ProducerOwes == IF ppc = "captured_chunks" THEN 1 ELSE 0

\* C24, as stated: in every reachable state capture_queue_count plus the
\* number of chunks in the queue is at most captured_chunks.
C24_AsStated ==
    LeqW(AddW(stats.capture_queue_count, Len(queue)), stats.captured_chunks)

\* C24, amended: capture_queue_count plus the chunks in the queue plus the
\* chunk send_loop has dequeued and not yet counted equals captured_chunks plus
\* the chunk the producer has queued and not yet counted; so the sum of the
\* claim is at most captured_chunks + 1, and at most captured_chunks in every
\* state where the producer is not between its try_send and line 443.
C24_ChunkBalance ==
    /\ AddW(stats.capture_queue_count, Len(queue) + SenderHolds)
          = AddW(stats.captured_chunks, ProducerOwes)
    /\ LeqW(AddW(stats.capture_queue_count, Len(queue)), AddW(stats.captured_chunks, 1))
    /\ ProducerOwes = 0 => C24_AsStated

\* The chunk was queued, received and counted by send_loop before the
\* producer has counted it: capture_queue_count is 1, captured_chunks still 0.
C24_Witness ==
    /\ ppc = "captured_chunks" /\ queue = <<>>
    /\ stats.capture_queue_count = U64(1) /\ stats.captured_chunks = U64(0)

\* The values the signal takes at the odd positions of the stream: with two
\* channels and whole-frame chunks these are the samples of channel 0, and
\* no value of the signal occurs at both an odd and an even position.
Channel0Vals == {SignalVals[i] : i \in {j \in 1..Len(SignalVals) : j % 2 = 1}}
\* The samples ss start with a sample of channel 0 and go on channel by channel.
FrameAligned(ss) ==
    \A j \in 1..Len(ss) : (ss[j] \in Channel0Vals) <=> ((j - 1) % cfg.channels = 0)

\* Every chunk enqueue_audio_chunk was or is being called with holds a whole
\* number of frames.
EveryOfferedChunkWhole ==
    /\ \A i \in 1..Len(accepted) : Len(accepted[i].samples) % cfg.channels = 0
    /\ \A i \in 1..Len(dropped) : Len(dropped[i].samples) % cfg.channels = 0
    /\ Len(pchunk) % cfg.channels = 0

====
